---- MODULE Spec2Model ----
(***************************************************************************)
(* Cart / checkout / order lifecycle of the storefront API.                *)
(*                                                                         *)
(* Documents of the store (products, carts, orders) are the shared state;  *)
(* every request handler is a process whose steps are separated by the     *)
(* awaits of its persistence round trips.                                  *)
(*                                                                         *)
(* Reading of the persistence layer: getOrCreateCart(...).populate(...) at *)
(* routes/cart.js:362 is read as "the user's cart with its products        *)
(* populated"; the pre('save') hook of Order runs before the insert and    *)
(* the unique index on orderNumber rejects a duplicate insert; a document  *)
(* save writes the modified paths and pushes the new array elements.       *)
(*                                                                         *)
(* Spec is the order lifecycle under concurrent requests; SpecCart is the  *)
(* cart API answering one request at a time, with checkouts and the clock; *)
(* SpecStore adds price changes, status updates and cancellations to it;   *)
(* SpecAdd is the add-item handler with its read and its save apart.       *)
(***************************************************************************)
EXTENDS Integers, Sequences, FiniteSets, TLC

VARIABLES products, carts, orders, req, events, now

vars == <<products, carts, orders, req, events, now>>

(* ---------------------------- bounds ----------------------------------- *)
Users == {"u1", "u2"}
Products == {"p1", "p2"}
Reqs == {"r1", "r2"}
MaxOrders == 2
MaxLineQty == 2
MaxEvents == 3
InitQty == 2
MaxNow == 2

(* ---------------------------- constants -------------------------------- *)
Statuses == {"pending", "confirmed", "processing", "shipped", "delivered",
             "cancelled", "refunded"}
Cancellable_WithProcessing == {"pending", "confirmed", "processing"}
Cancellable == {"pending", "confirmed"}
PadWidth == 6
\* the life of an applied coupon, in days: 24 * 60 * 60 * 1000 ms
CouponDays == 1
\* the life of a cart, in days: 30 * 24 * 60 * 60 * 1000 ms
CartDays == 30
PriceOf == [p \in Products |-> IF p = "p1" THEN 10 ELSE 20]
\* `coupon = {}`: no code; `discount || 0` and a type that is not percentage
NoCoupon == [code |-> <<>>, discount |-> 0, type |-> "fixed", expiresAt |-> 0]

(* ---------------------------- Product model ---------------------------- *)
isInStock(prod, quantity) ==
  IF ~prod.trackInventory THEN TRUE
  ELSE IF prod.quantity >= quantity THEN TRUE
  ELSE IF prod.allowBackorder THEN TRUE
  ELSE FALSE

\* Product.findByIdAndUpdate(id, {$inc: {...}}): atomic on one document,
\* no validators, no-op when the document does not exist.
IncProduct(ps, p, dq, ds, dr) ==
  IF ps[p].exists
  THEN [ps EXCEPT ![p].quantity = @ + dq,
                  ![p].totalSold = @ + ds,
                  ![p].totalRevenue = @ + dr]
  ELSE ps

ReserveLine(ps, item) ==
  IncProduct(ps, item.product, -item.quantity, item.quantity,
             item.price * item.quantity)

\* a release that forgets the revenue counter
ReleaseLine_NoRevenue(ps, item) ==
  IncProduct(ps, item.product, item.quantity, -item.quantity, 0)

ReleaseLine(ps, item) ==
  IncProduct(ps, item.product, item.quantity, -item.quantity,
             -(item.price * item.quantity))

\* Product.updateInventory on a product document
updateInventory(prod, quantity, operation) ==
  IF ~prod.trackInventory THEN prod
  ELSE IF operation = "subtract"
       THEN [prod EXCEPT
               !.quantity = IF @ - quantity > 0 THEN @ - quantity ELSE 0,
               !.totalSold = @ + quantity,
               !.totalRevenue = @ + prod.price * quantity]
  ELSE IF operation = "add"
       THEN [prod EXCEPT !.quantity = @ + quantity]
  ELSE prod

(* ---------------------------- Cart model ------------------------------- *)
\* JavaScript values of a line's variant: undefined, or an object as the
\* list of its own properties in insertion order
JsUndefined == [kind |-> "undefined", fields |-> <<>>]
JsObject(fs) == [kind |-> "object", fields |-> fs]

HasField(v, k) == \E i \in 1..Len(v.fields) : v.fields[i][1] = k
FieldOf(v, k) == v.fields[CHOOSE i \in 1..Len(v.fields) : v.fields[i][1] = k]

\* the nested path `variant` of cartItemSchema as a stored line returns it:
\* `name` when it was given, `options` always (an array path defaults to [])
castVariant(v) ==
  JsObject((IF v.kind = "object" /\ HasField(v, "name")
            THEN <<FieldOf(v, "name")>> ELSE <<>>)
           \o <<IF v.kind = "object" /\ HasField(v, "options")
                THEN FieldOf(v, "options") ELSE <<"options", "[]">>>>)

RECURSIVE Members(_)
Members(fs) ==
  IF fs = <<>> THEN <<>>
  ELSE <<Head(fs)[1], ":", Head(fs)[2]>>
       \o (IF Len(fs) > 1 THEN <<",">> ELSE <<>>) \o Members(Tail(fs))

\* JSON.stringify: undefined for undefined, the text of an object as its
\* sequence of tokens
JSONstringify(v) ==
  IF v.kind = "undefined" THEN <<"undefined">>
  ELSE <<"{">> \o Members(v.fields) \o <<"}">>

RECURSIVE SumLines(_)
SumLines(items) ==
  IF items = <<>> THEN 0
  ELSE Head(items).price * Head(items).quantity + SumLines(Tail(items))

subtotal(cart) == SumLines(cart.items)

\* virtual('total'): `this.coupon.discount || 0`, the type test, no test of
\* the code or of expiresAt
total(cart) ==
  LET discount == cart.coupon.discount
      discountAmount == IF cart.coupon.type = "percentage"
                        THEN (subtotal(cart) * discount) \div 100
                        ELSE discount
  IN subtotal(cart) + cart.shippingCost + cart.taxAmount - discountAmount

RECURSIVE SumQuantity(_)
SumQuantity(items) ==
  IF items = <<>> THEN 0 ELSE Head(items).quantity + SumQuantity(Tail(items))

itemCount(cart) == SumQuantity(cart.items)

\* the line test of addItem, updateItemQuantity and removeItem
SameLine(item, productId, variant) ==
  /\ item.product = productId
  /\ JSONstringify(item.variant) = JSONstringify(variant)

\* findIndex: the first matching line, 0 for none
FindLine(items, p, variant) ==
  IF \E i \in 1..Len(items) : SameLine(items[i], p, variant)
  THEN CHOOSE i \in 1..Len(items) :
         /\ SameLine(items[i], p, variant)
         /\ \A j \in 1..(i - 1) : ~SameLine(items[j], p, variant)
  ELSE 0

addItem(cart, p, variant, quantity, price) ==
  LET idx == FindLine(cart.items, p, variant) IN
  IF idx > 0
  THEN [cart EXCEPT !.items[idx].quantity = @ + quantity]
  ELSE [cart EXCEPT !.items =
          Append(@, [id |-> cart.nextId, product |-> p,
                     variant |-> castVariant(variant),
                     quantity |-> quantity, price |-> price]),
                    !.nextId = @ + 1]

updateItemQuantity(cart, p, variant, quantity) ==
  LET idx == FindLine(cart.items, p, variant) IN
  IF idx = 0 THEN cart
  ELSE IF quantity <= 0
       THEN [cart EXCEPT !.items =
               SelectSeq(@, LAMBDA item : ~SameLine(item, p, variant))]
       ELSE [cart EXCEPT !.items[idx].quantity = quantity]

removeItem(cart, p, variant) ==
  [cart EXCEPT !.items =
     SelectSeq(@, LAMBDA item : ~SameLine(item, p, variant))]

\* a clear that empties the lines only
clear_KeepsCoupon(cart) == [cart EXCEPT !.items = <<>>]

clear(cart) == [cart EXCEPT !.items = <<>>, !.coupon = NoCoupon]

applyCoupon(cart, couponCode, discount, type, expiresAt) ==
  [cart EXCEPT !.coupon = [code |-> couponCode, discount |-> discount,
                           type |-> type, expiresAt |-> expiresAt]]

\* a removal that forgets the code only
removeCoupon_KeepsDiscount(cart) == [cart EXCEPT !.coupon.code = <<>>]

removeCoupon(cart) == [cart EXCEPT !.coupon = NoCoupon]

(* ---------------------------- Order model ------------------------------ *)
RECURSIVE Digits(_)
Digits(n) == IF n < 10 THEN <<n>> ELSE Append(Digits(n \div 10), n % 10)

RECURSIVE padStart(_, _)
padStart(ds, width) ==
  IF Len(ds) >= width THEN ds ELSE padStart(<<0>> \o ds, width)

\* `ORD-${String(count + 1).padStart(6, '0')}` as its digit string
OrderNumber(count) == padStart(Digits(count + 1), PadWidth)

\* pre('save') timeline push: status modified and document not new
PreSaveTimeline(isNew, loadedStatus, status) ==
  IF status # loadedStatus /\ ~isNew
  THEN <<[status |-> status, note |-> "hook"]>>
  ELSE <<>>

\* updateStatus: in-memory push of one entry
updateStatus(newStatus, note) == <<[status |-> newStatus, note |-> note]>>

\* no unique index: every insert is accepted
DuplicateKey_NoIndex(os, number) == FALSE

\* unique index on orderNumber
DuplicateKey(os, number) == \E i \in 1..Len(os) : os[i].orderNumber = number

\* a schema without the minimum of total and subtotal
OrderValid_NoMinimum(doc) == TRUE

\* schema validators of Order that the checkout data can violate
OrderValid(doc) == doc.total >= 0 /\ doc.subtotal >= 0

(* ---------------------------- requests --------------------------------- *)
NoDoc == [customer |-> "", items |-> <<>>, subtotal |-> 0, tax |-> 0,
          shippingCost |-> 0, discount |-> 0, total |-> 0]

Idle == [op |-> "idle", pc |-> "idle", user |-> "", result |-> "",
         doc |-> NoDoc, count |-> 0, oid |-> 0, i |-> 0,
         newStatus |-> "", loadedStatus |-> "", arg |-> <<>>]

\* the answer is sent: the handler's locals are gone, the answer and the
\* handler's last position (order created, loop index) stay observable
Done(r, res) ==
  [Idle EXCEPT !.op = r.op, !.user = r.user, !.pc = "done", !.result = res,
               !.oid = r.oid, !.i = r.i, !.newStatus = r.newStatus,
               !.loadedStatus = r.loadedStatus, !.arg = r.arg]

\* a slot takes a new request once its previous answer has been sent
Free(r) == req[r].pc \in {"idle", "done"}

(* ---------------------------- Init ------------------------------------- *)
Configs == { [trackInventory |-> TRUE,  allowBackorder |-> FALSE],
             [trackInventory |-> TRUE,  allowBackorder |-> TRUE],
             [trackInventory |-> FALSE, allowBackorder |-> FALSE] }

Line(p, q) ==
  [id |-> IF p = "p1" THEN 1 ELSE 2, product |-> p,
   variant |-> castVariant(JsUndefined), quantity |-> q, price |-> PriceOf[p]]

\* a cart document with its defaults; docs is the number of documents the
\* carts collection holds for the user
NewCart(items) ==
  [items |-> items, coupon |-> NoCoupon, shippingMethod |-> "standard",
   shippingCost |-> 0, taxAmount |-> 0, nextId |-> Len(items) + 1,
   docs |-> 1, expiresAt |-> CartDays]

\* no cart document for the user
NoCart == [NewCart(<<>>) EXCEPT !.docs = 0, !.expiresAt = 0]

\* carts as earlier add-item requests left them: at most one line per product
InitCarts ==
  {<<>>} \cup {<<Line("p1", q)>> : q \in 1..MaxLineQty}
         \cup {<<Line("p1", q), Line("p2", 1)>> : q \in 1..MaxLineQty}

Init ==
  /\ \E cfg \in Configs :
       products = [p \in Products |->
         [exists |-> TRUE, status |-> "active",
          trackInventory |-> IF p = "p1" THEN TRUE ELSE cfg.trackInventory,
          allowBackorder |-> IF p = "p1" THEN FALSE ELSE cfg.allowBackorder,
          price |-> PriceOf[p], quantity |-> InitQty,
          totalSold |-> 0, totalRevenue |-> 0]]
  /\ \E f \in [Users -> InitCarts] :
       carts = [u \in Users |-> NewCart(f[u])]
  /\ orders = <<>>
  /\ req = [r \in Reqs |-> Idle]
  /\ events = 0
  /\ now = 0

(* ---------------------------- cart handlers ---------------------------- *)
\* what a request body can carry as `variant`
VariantInputs ==
  { JsUndefined,
    JsObject(<< <<"name", "M">> >>),
    JsObject(<< <<"name", "M">>, <<"options", "[]">> >>) }

\* the answer of a handler that runs from its read of the cart to its save
Answer(r, op, u, arg, res) ==
  req' = [req EXCEPT ![r] =
            Done([Idle EXCEPT !.op = op, !.user = u, !.arg = arg], res)]

Begin(r) ==
  /\ Free(r)
  /\ events < MaxEvents
  /\ events' = events + 1

\* the line of the cart with this _id, 0 for none: cart.items.id(itemId)
LineById(items, id) ==
  IF \E i \in 1..Len(items) : items[i].id = id
  THEN CHOOSE i \in 1..Len(items) : items[i].id = id
  ELSE 0

\* the checks of POST /api/cart/items before the cart is read
AddCheck(p, q) ==
  IF q < 1 THEN "ValidationFailed"
  ELSE IF ~products[p].exists THEN "ProductNotFound"
  ELSE IF products[p].status # "active" THEN "ProductUnavailable"
  ELSE IF ~isInStock(products[p], q) THEN "NotEnoughInventory"
  ELSE "Added"

\* POST /api/cart/items
AddItem(r, u, p, variant, q) ==
  /\ Begin(r)
  /\ Answer(r, "addItem", u, <<p, variant, q>>, AddCheck(p, q))
  /\ carts' = IF AddCheck(p, q) = "Added"
              THEN [carts EXCEPT ![u] =
                      addItem(@, p, variant, q, products[p].price)]
              ELSE carts
  /\ UNCHANGED <<products, orders, now>>

\* POST /api/cart/items up to the cart it read: the checks, getOrCreateCart
AddRead(r, u, p, variant, q) ==
  /\ Begin(r)
  /\ LET base == [Idle EXCEPT !.op = "addItem", !.user = u,
                              !.arg = <<p, variant, q>>] IN
       req' = [req EXCEPT ![r] =
         IF AddCheck(p, q) # "Added" THEN Done(base, AddCheck(p, q))
         ELSE [base EXCEPT !.pc = "save", !.doc.items = carts[u].items,
                           !.count = products[p].price]]
  /\ UNCHANGED <<products, carts, orders, now>>

\* cart.addItem on the cart that was read, and what its save() writes: the
\* new quantity of the line it found, at that line's index, or the push of
\* the new line
SaveAdd(cart, read, p, variant, quantity, price) ==
  LET idx == FindLine(read, p, variant) IN
  IF idx > 0
  THEN IF idx <= Len(cart.items)
       THEN [cart EXCEPT !.items[idx].quantity = read[idx].quantity + quantity]
       ELSE cart
  ELSE [cart EXCEPT !.items =
          Append(@, [id |-> cart.nextId, product |-> p,
                     variant |-> castVariant(variant),
                     quantity |-> quantity, price |-> price]),
                    !.nextId = @ + 1]

\* POST /api/cart/items from cart.addItem to the answer
AddSave(r) ==
  /\ req[r].op = "addItem" /\ req[r].pc = "save"
  /\ carts' = [carts EXCEPT ![req[r].user] =
                 SaveAdd(@, req[r].doc.items, req[r].arg[1], req[r].arg[2],
                         req[r].arg[3], req[r].count)]
  /\ req' = [req EXCEPT ![r] = Done(@, "Added")]
  /\ UNCHANGED <<products, orders, events, now>>

\* PUT /api/cart/items/:itemId
UpdateItem(r, u, id, q) ==
  /\ Begin(r)
  /\ LET k == LineById(carts[u].items, id)
         item == carts[u].items[k]
         res == IF q < 0 THEN "ValidationFailed"
                ELSE IF k = 0 THEN "ItemNotFound"
                ELSE IF q > 0 /\ ~products[item.product].exists
                     THEN "ServerError"
                ELSE IF q > 0 /\ ~isInStock(products[item.product], q)
                     THEN "NotEnoughInventory"
                ELSE "Updated"
     IN /\ Answer(r, "updateItem", u, <<id, q>>, res)
        /\ carts' = IF res = "Updated"
                    THEN [carts EXCEPT ![u] =
                            updateItemQuantity(@, item.product, item.variant, q)]
                    ELSE carts
  /\ UNCHANGED <<products, orders, now>>

\* DELETE /api/cart/items/:itemId
RemoveItem(r, u, id) ==
  /\ Begin(r)
  /\ LET k == LineById(carts[u].items, id)
         item == carts[u].items[k]
     IN IF k = 0
        THEN /\ Answer(r, "removeItem", u, <<id>>, "ItemNotFound")
             /\ UNCHANGED carts
        ELSE /\ Answer(r, "removeItem", u, <<id>>, "Removed")
             /\ carts' = [carts EXCEPT ![u] =
                            removeItem(@, item.product, item.variant)]
  /\ UNCHANGED <<products, orders, now>>

\* DELETE /api/cart
ClearCart(r, u) ==
  /\ Begin(r)
  /\ Answer(r, "clear", u, <<>>, "Cleared")
  /\ carts' = [carts EXCEPT ![u] = clear(@)]
  /\ UNCHANGED <<products, orders, now>>

(* ---------------------------- coupons ---------------------------------- *)
\* a code is the sequence of its characters
toUpperCase(code) ==
  [i \in 1..Len(code) |->
     CASE code[i] = "s" -> "S" [] code[i] = "a" -> "A"
       [] code[i] = "v" -> "V" [] code[i] = "e" -> "E"
       [] OTHER -> code[i]]

RECURSIVE trimStart(_)
trimStart(code) ==
  IF code # <<>> /\ Head(code) = " " THEN trimStart(Tail(code)) ELSE code

RECURSIVE trimEnd(_)
trimEnd(code) ==
  IF code # <<>> /\ code[Len(code)] = " "
  THEN trimEnd(SubSeq(code, 1, Len(code) - 1)) ELSE code

trim(code) == trimEnd(trimStart(code))

WELCOME10 == <<"W", "E", "L", "C", "O", "M", "E", "1", "0">>
SAVE20 == <<"S", "A", "V", "E", "2", "0">>
FREESHIP == <<"F", "R", "E", "E", "S", "H", "I", "P">>

validCoupons ==
  (WELCOME10 :> [discount |-> 10, type |-> "percentage"])
  @@ (SAVE20 :> [discount |-> 20, type |-> "fixed"])
  @@ (FREESHIP :> [discount |-> 0, type |-> "fixed"])

\* the key is looked up as it is
LookupKey_NoUpperCase(code) == code

\* validCoupons[code.toUpperCase()]
LookupKey(code) == toUpperCase(code)

\* what a request body can carry as `code`
CodeInputs ==
  { <<"s", "a", "v", "e", "2", "0">>,
    <<" ">> \o WELCOME10 \o <<" ">>,
    FREESHIP,
    <<"X">>,
    <<" ">> }

\* POST /api/cart/coupon: the validator trims the body's code, the table is
\* looked up before the cart is read
ApplyCoupon(r, u, input) ==
  /\ Begin(r)
  /\ LET code == trim(input)
         key == LookupKey(code)
         res == IF code = <<>> THEN "ValidationFailed"
                ELSE IF key \notin DOMAIN validCoupons THEN "InvalidCoupon"
                ELSE IF Len(carts[u].items) = 0 THEN "CartEmpty"
                ELSE "Applied"
     IN /\ Answer(r, "applyCoupon", u, <<input>>, res)
        /\ carts' = IF res = "Applied"
                    THEN [carts EXCEPT ![u] =
                            applyCoupon(@, toUpperCase(code),
                                        validCoupons[key].discount,
                                        validCoupons[key].type,
                                        now + CouponDays)]
                    ELSE carts
  /\ UNCHANGED <<products, orders, now>>

\* DELETE /api/cart/coupon
RemoveCoupon(r, u) ==
  /\ Begin(r)
  /\ Answer(r, "removeCoupon", u, <<>>, "Removed")
  /\ carts' = [carts EXCEPT ![u] = removeCoupon(@)]
  /\ UNCHANGED <<products, orders, now>>

\* a day passes
Tick ==
  /\ now < MaxNow
  /\ now' = now + 1
  /\ UNCHANGED <<products, carts, orders, req, events>>

(* ---------------------------- product handlers ------------------------- *)
\* PUT /api/products/:id with a status in the body
UpdateProduct(p, s) ==
  /\ products[p].exists
  /\ products[p].status # s
  /\ products' = [products EXCEPT ![p].status = s]
  /\ events < MaxEvents
  /\ events' = events + 1
  /\ UNCHANGED <<carts, orders, req, now>>

\* PUT /api/products/:id with a price in the body
UpdatePrice(p, price) ==
  /\ products[p].exists
  /\ products[p].price # price
  /\ products' = [products EXCEPT ![p].price = price]
  /\ events < MaxEvents
  /\ events' = events + 1
  /\ UNCHANGED <<carts, orders, req, now>>

\* DELETE /api/products/:id
DeleteProduct(p) ==
  /\ products[p].exists
  /\ products' = [products EXCEPT ![p].exists = FALSE]
  /\ events < MaxEvents
  /\ events' = events + 1
  /\ UNCHANGED <<carts, orders, req, now>>

(* ---------------------------- checkout --------------------------------- *)
LineUnavailable(ps, item) ==
  ~ps[item.product].exists \/ ps[item.product].status # "active"

LineBad(ps, item) ==
  LineUnavailable(ps, item) \/ ~isInStock(ps[item.product], item.quantity)

\* a validation that looks at the first line only
ValidateCart_FirstLineOnly(ps, items) ==
  IF LineUnavailable(ps, items[1]) THEN "ProductUnavailable"
  ELSE IF ~isInStock(ps[items[1].product], items[1].quantity)
       THEN "NotEnoughInventory"
  ELSE "ok"

\* the validation loop: the first line that fails decides the answer
ValidateCart(ps, items) ==
  IF \E i \in 1..Len(items) : LineBad(ps, items[i])
  THEN LET k == CHOOSE i \in 1..Len(items) :
                  /\ LineBad(ps, items[i])
                  /\ \A j \in 1..(i - 1) : ~LineBad(ps, items[j])
       IN IF LineUnavailable(ps, items[k]) THEN "ProductUnavailable"
          ELSE "NotEnoughInventory"
  ELSE "ok"

\* a checkout without the empty-cart test
CheckCart_NoEmptyTest(ps, cart) == ValidateCart(ps, cart.items)

\* the empty-cart test, then the validation loop
CheckCart(ps, cart) ==
  IF Len(cart.items) = 0 THEN "CartEmpty" ELSE ValidateCart(ps, cart.items)

\* a checkout that reads every coupon as a fixed amount
DiscountAmount_AlwaysFixed(cart) ==
  IF cart.coupon.code # <<>> THEN cart.coupon.discount ELSE 0

\* discountAmount of the checkout
DiscountAmount(cart) ==
  IF cart.coupon.code # <<>>
  THEN IF cart.coupon.type = "percentage"
       THEN (subtotal(cart) * cart.coupon.discount) \div 100
       ELSE cart.coupon.discount
  ELSE 0

\* one element of orderItems
OrderItem(item) ==
  [product |-> item.product, variant |-> item.variant,
   quantity |-> item.quantity, price |-> item.price,
   total |-> item.price * item.quantity]

OrderData(u, cart) ==
  [customer |-> u,
   items |-> [k \in 1..Len(cart.items) |-> OrderItem(cart.items[k])],
   subtotal |-> subtotal(cart), tax |-> cart.taxAmount,
   shippingCost |-> cart.shippingCost, discount |-> DiscountAmount(cart),
   total |-> subtotal(cart) + cart.taxAmount + cart.shippingCost
             - DiscountAmount(cart)]

\* read the cart, reject an empty cart, validate every line, build orderData
CheckoutStart(r, u) ==
  /\ Free(r)
  /\ events < MaxEvents
  /\ events' = events + 1
  /\ Len(orders) < MaxOrders
  /\ LET cart == carts[u]
         base == [Idle EXCEPT !.op = "checkout", !.user = u] IN
       req' = [req EXCEPT ![r] =
         IF CheckCart(products, cart) # "ok"
         THEN Done(base, CheckCart(products, cart))
         ELSE [base EXCEPT !.pc = "count", !.doc = OrderData(u, cart)]]
  /\ UNCHANGED <<products, carts, orders, now>>

\* Order.create, pre('save'): countDocuments()
CheckoutCount(r) ==
  /\ req[r].op = "checkout" /\ req[r].pc = "count"
  /\ req' = [req EXCEPT ![r].count = Len(orders), ![r].pc = "insert"]
  /\ UNCHANGED <<products, carts, orders, events, now>>

NewOrder(doc, count) ==
  [orderNumber |-> OrderNumber(count), customer |-> doc.customer,
   items |-> doc.items, subtotal |-> doc.subtotal, tax |-> doc.tax,
   shippingCost |-> doc.shippingCost, discount |-> doc.discount, total |-> doc.total, status |-> "pending",
   timeline |-> PreSaveTimeline(TRUE, "pending", "pending")]

\* Order.create: validation and insert under the unique orderNumber index
CheckoutInsert(r) ==
  /\ req[r].op = "checkout" /\ req[r].pc = "insert"
  /\ Len(orders) < MaxOrders
  /\ IF ~OrderValid(req[r].doc)
        \/ DuplicateKey(orders, OrderNumber(req[r].count))
     THEN /\ req' = [req EXCEPT ![r] = Done(@, "ServerError")]
          /\ UNCHANGED orders
     ELSE /\ orders' = Append(orders, NewOrder(req[r].doc, req[r].count))
          /\ req' = [req EXCEPT ![r].oid = Len(orders) + 1,
                                ![r].i = 1, ![r].pc = "inc"]
  /\ UNCHANGED <<products, carts, events, now>>

\* one Product.findByIdAndUpdate of the inventory loop
CheckoutInc(r) ==
  /\ req[r].op = "checkout" /\ req[r].pc = "inc"
  /\ req[r].i <= Len(req[r].doc.items)
  /\ products' = ReserveLine(products, req[r].doc.items[req[r].i])
  /\ req' = [req EXCEPT ![r].i = @ + 1,
               ![r].pc = IF req[r].i = Len(req[r].doc.items)
                         THEN "clear" ELSE "inc"]
  /\ UNCHANGED <<carts, orders, events, now>>

\* cart.clear() and the 201 answer
CheckoutClear(r) ==
  /\ req[r].op = "checkout" /\ req[r].pc = "clear"
  /\ carts' = [carts EXCEPT ![req[r].user] = clear(@)]
  /\ req' = [req EXCEPT ![r] = Done(@, "Created")]
  /\ UNCHANGED <<products, orders, events, now>>

(* ---------------------------- status update (privileged) --------------- *)
\* findById, 404 when missing, updateStatus in memory
StatusStart(r, o, s) ==
  /\ Free(r)
  /\ events < MaxEvents
  /\ events' = events + 1
  /\ LET base == [Idle EXCEPT !.op = "status", !.user = "admin"] IN
       req' = [req EXCEPT ![r] =
         IF o \notin 1..Len(orders) THEN Done(base, "OrderNotFound")
         ELSE [base EXCEPT !.pc = "save", !.oid = o, !.newStatus = s,
                           !.loadedStatus = orders[o].status,
                           !.doc.items = orders[o].items]]
  /\ UNCHANGED <<products, carts, orders, now>>

\* a save that prices the order's lines again from the products
SaveOrder_Repriced(os, o, loadedStatus, newStatus, note) ==
  LET items == [k \in 1..Len(os[o].items) |->
                  [os[o].items[k] EXCEPT
                     !.price = products[os[o].items[k].product].price]]
  IN [os EXCEPT ![o].status = newStatus,
                ![o].timeline = @ \o updateStatus(newStatus, note),
                ![o].items = items,
                ![o].total = SumLines(items) + os[o].tax + os[o].shippingCost
                             - os[o].discount]

\* order.save() after updateStatus: status is written when the assignment
\* changed it (a modified path), the timeline entries are pushed
SaveOrder(os, o, loadedStatus, newStatus, note) ==
  [os EXCEPT ![o].status = IF newStatus # loadedStatus THEN newStatus ELSE @,
             ![o].timeline = @ \o updateStatus(newStatus, note)
                               \o PreSaveTimeline(FALSE, loadedStatus, newStatus)]

\* `status === 'cancelled' && order.status !== 'cancelled'`, evaluated after
\* updateStatus has assigned order.status
RestoreOnStatus(status, orderStatus) ==
  status = "cancelled" /\ orderStatus # "cancelled"

\* order.save(), then the restore-inventory test
StatusSave(r) ==
  /\ req[r].op = "status" /\ req[r].pc = "save"
  /\ orders' = SaveOrder(orders, req[r].oid, req[r].loadedStatus,
                         req[r].newStatus, "admin")
  /\ req' = [req EXCEPT ![r] =
       IF RestoreOnStatus(req[r].newStatus, req[r].newStatus)
          /\ Len(req[r].doc.items) > 0
       THEN [@ EXCEPT !.pc = "restore", !.i = 1]
       ELSE Done(@, "Updated")]
  /\ UNCHANGED <<products, carts, events, now>>

(* ---------------------------- cancel (customer) ------------------------ *)
\* an ownership test that lets every user through
Owns_Anyone(order, u) == TRUE

\* `order.customer.toString() !== req.user.id`
Owns(order, u) == order.customer = u

\* findById, 404 / 403 / 400 checks, updateStatus in memory
CancelStart(r, u, o) ==
  /\ Free(r)
  /\ events < MaxEvents
  /\ events' = events + 1
  /\ LET base == [Idle EXCEPT !.op = "cancel", !.user = u] IN
       req' = [req EXCEPT ![r] =
         IF o \notin 1..Len(orders) THEN Done(base, "OrderNotFound")
         ELSE IF ~Owns(orders[o], u) THEN Done(base, "NotAuthorized")
         ELSE IF orders[o].status \notin Cancellable
              THEN Done(base, "CannotCancel")
         ELSE [base EXCEPT !.pc = "save", !.oid = o,
                           !.newStatus = "cancelled",
                           !.loadedStatus = orders[o].status,
                           !.doc.items = orders[o].items]]
  /\ UNCHANGED <<products, carts, orders, now>>

\* order.save()
CancelSave(r) ==
  /\ req[r].op = "cancel" /\ req[r].pc = "save"
  /\ orders' = SaveOrder(orders, req[r].oid, req[r].loadedStatus,
                         req[r].newStatus, "customer")
  /\ req' = [req EXCEPT ![r].pc = "restore", ![r].i = 1]
  /\ UNCHANGED <<products, carts, events, now>>

\* one Product.findByIdAndUpdate of a restore-inventory loop
RestoreInc(r) ==
  /\ req[r].op \in {"cancel", "status"} /\ req[r].pc = "restore"
  /\ req[r].i <= Len(req[r].doc.items)
  /\ products' = ReleaseLine(products, req[r].doc.items[req[r].i])
  /\ req' = [req EXCEPT ![r] =
       IF req[r].i = Len(req[r].doc.items)
       THEN Done([@ EXCEPT !.i = req[r].i + 1],
                 IF req[r].op = "cancel" THEN "Cancelled" ELSE "Updated")
       ELSE [@ EXCEPT !.i = req[r].i + 1]]
  /\ UNCHANGED <<carts, orders, events, now>>

(* ---------------------------- environment ------------------------------ *)
\* a persistence round trip of a handler throws: catch block, 500
AtRoundTrip(r) == req[r].pc \in {"count", "insert", "inc", "clear", "save", "restore"}

PersistenceFailure(r) ==
  /\ AtRoundTrip(r)
  /\ events < MaxEvents
  /\ events' = events + 1
  /\ req' = [req EXCEPT ![r] = Done(@, "ServerError")]
  /\ UNCHANGED <<products, carts, orders, now>>

Next ==
  \/ \E p \in Products, s \in {"active", "inactive"} : UpdateProduct(p, s)
  \/ \E p \in Products : DeleteProduct(p)
  \/ \E r \in Reqs, u \in Users : CheckoutStart(r, u)
  \/ \E r \in Reqs : CheckoutCount(r)
  \/ \E r \in Reqs : CheckoutInsert(r)
  \/ \E r \in Reqs : CheckoutInc(r)
  \/ \E r \in Reqs : CheckoutClear(r)
  \/ \E r \in Reqs, o \in 0..MaxOrders, s \in Statuses : StatusStart(r, o, s)
  \/ \E r \in Reqs : StatusSave(r)
  \/ \E r \in Reqs, u \in Users, o \in 0..MaxOrders : CancelStart(r, u, o)
  \/ \E r \in Reqs : CancelSave(r)
  \/ \E r \in Reqs : RestoreInc(r)
  \/ \E r \in Reqs : PersistenceFailure(r)

Spec == Init /\ [][Next]_vars

(* ---------------------------- the cart API ----------------------------- *)
\* requests of the cart API, each from its read of the cart to its save,
\* checkouts and the passing of time, on carts that start empty
InitCart ==
  /\ \E cfg \in Configs :
       products = [p \in Products |->
         [exists |-> TRUE, status |-> "active",
          trackInventory |-> IF p = "p1" THEN TRUE ELSE cfg.trackInventory,
          allowBackorder |-> IF p = "p1" THEN FALSE ELSE cfg.allowBackorder,
          price |-> PriceOf[p], quantity |-> InitQty,
          totalSold |-> 0, totalRevenue |-> 0]]
  /\ carts = [u \in Users |-> NewCart(<<>>)]
  /\ orders = <<>>
  /\ req = [r \in Reqs |-> Idle]
  /\ events = 0
  /\ now = 0

\* the cart API answers one request at a time
CartReqs == {"r1"}

NextCart ==
  \/ \E r \in CartReqs, u \in Users, p \in Products, v \in VariantInputs,
        q \in 0..MaxLineQty : AddItem(r, u, p, v, q)
  \/ \E r \in CartReqs, u \in Users, id \in 1..MaxEvents, q \in -1..MaxLineQty :
        UpdateItem(r, u, id, q)
  \/ \E r \in CartReqs, u \in Users, id \in 1..MaxEvents : RemoveItem(r, u, id)
  \/ \E r \in CartReqs, u \in Users : ClearCart(r, u)
  \/ \E r \in CartReqs, u \in Users, c \in CodeInputs : ApplyCoupon(r, u, c)
  \/ \E r \in CartReqs, u \in Users : RemoveCoupon(r, u)
  \/ Tick
  \/ \E r \in CartReqs, u \in Users : CheckoutStart(r, u)
  \/ \E r \in CartReqs : CheckoutCount(r)
  \/ \E r \in CartReqs : CheckoutInsert(r)
  \/ \E r \in CartReqs : CheckoutInc(r)
  \/ \E r \in CartReqs : CheckoutClear(r)

SpecCart == InitCart /\ [][NextCart]_vars

(* ======================================================================= *)
(* Properties                                                              *)
(* ======================================================================= *)
InitialCounters(p) ==
  /\ products[p].quantity = InitQty
  /\ products[p].totalSold = 0
  /\ products[p].totalRevenue = 0

RECURSIVE LexLess(_, _)
LexLess(a, b) ==
  IF a = <<>> THEN b # <<>>
  ELSE IF b = <<>> THEN FALSE
  ELSE IF Head(a) # Head(b) THEN Head(a) < Head(b)
  ELSE LexLess(Tail(a), Tail(b))

C3_CancelReleasesEveryItem ==
  \A r \in Reqs :
    ( /\ req[r].op \in {"status", "cancel"}
      /\ req[r].pc = "done"
      /\ req[r].result \in {"Updated", "Cancelled"}
      /\ req[r].newStatus = "cancelled"
      /\ req[r].loadedStatus # "cancelled" )
      => req[r].i = Len(orders[req[r].oid].items) + 1

\* C4: every step that changes an order's status makes its timeline exactly
\* one entry longer.
C4_OneEntryPerStatusChange ==
  [][\A o \in 1..Len(orders) :
       orders'[o].status # orders[o].status
         => Len(orders'[o].timeline) = Len(orders[o].timeline) + 1]_vars

CheckedOutThenCancelled ==
  /\ Len(orders) = 1
  /\ orders[1].status = "cancelled"
  /\ orders[1].timeline = <<[status |-> "cancelled", note |-> "customer"],
                            [status |-> "cancelled", note |-> "hook"]>>
  /\ carts[orders[1].customer].items = <<>>
  /\ \A r \in Reqs : req[r].pc \in {"idle", "done"}
  /\ \E r \in Reqs : req[r].op = "cancel" /\ req[r].result = "Cancelled"
  /\ \A r \in Reqs : req[r].result # "ServerError"

\* C8: checkout followed by the customer's cancel of the pending order
\* leaves every product of the order with the quantity, totalSold and
\* totalRevenue it had before the checkout.
C8_RoundTrip ==
  CheckedOutThenCancelled
    => \A k \in 1..Len(orders[1].items) :
         LET p == orders[1].items[k].product IN
           products[p].exists => InitialCounters(p)

C8_Witness ==
  /\ CheckedOutThenCancelled
  /\ Len(orders[1].items) = 2
  /\ \A p \in Products : products[p].exists

\* C9: a customer cancel of an own order whose status is neither pending
\* nor confirmed is rejected and changes no order and no product.
C9_LateCancelRejected ==
  [][\A r \in Reqs, u \in Users, o \in 1..Len(orders) :
       ( /\ CancelStart(r, u, o)
         /\ orders[o].customer = u
         /\ orders[o].status \notin {"pending", "confirmed"} )
         => /\ req'[r].pc = "done"
            /\ req'[r].result = "CannotCancel"
            /\ UNCHANGED <<orders, products, carts>>]_vars

C9_Witness ==
  \E r \in Reqs :
    /\ req[r].op = "cancel" /\ req[r].result = "CannotCancel"
    /\ \E o \in 1..Len(orders) :
         /\ orders[o].customer = req[r].user
         /\ orders[o].status \in {"processing", "shipped", "delivered",
                                   "cancelled", "refunded"}

\* C10: order numbers are unique and increase with the order of creation.
C10_OrderNumbersIncrease ==
  \A i \in 1..Len(orders), j \in 1..Len(orders) :
    i < j => LexLess(orders[i].orderNumber, orders[j].orderNumber)

\* two checkouts raced: one inserted its order, the other still holds the
\* count it read before
C10_Witness ==
  /\ Len(orders) >= 1
  /\ \E r \in Reqs :
       /\ req[r].op = "checkout" /\ req[r].pc = "insert"
       /\ req[r].count < Len(orders)

(* ---------------------------- the store ------------------------------- *)
\* the cart API, price changes, status updates and cancellations, one
\* request at a time, from a store where u1 already holds a line
NewPrices == {30}

InitStore ==
  /\ \E cfg \in Configs :
       products = [p \in Products |->
         [exists |-> TRUE, status |-> "active",
          trackInventory |-> IF p = "p1" THEN TRUE ELSE cfg.trackInventory,
          allowBackorder |-> IF p = "p1" THEN FALSE ELSE cfg.allowBackorder,
          price |-> PriceOf[p], quantity |-> InitQty,
          totalSold |-> 0, totalRevenue |-> 0]]
  /\ carts = [u \in Users |->
                IF u = "u1" THEN NewCart(<<Line("p1", 1)>>)
                ELSE NewCart(<<>>)]
  /\ orders = <<>>
  /\ req = [r \in Reqs |-> Idle]
  /\ events = 0
  /\ now = 0

NextStore ==
  \/ NextCart
  \/ \E p \in Products, price \in NewPrices : UpdatePrice(p, price)
  \/ \E r \in CartReqs, o \in 0..MaxOrders, s \in Statuses :
        StatusStart(r, o, s)
  \/ \E r \in CartReqs : StatusSave(r)
  \/ \E r \in CartReqs, u \in Users, o \in 0..MaxOrders : CancelStart(r, u, o)
  \/ \E r \in CartReqs : CancelSave(r)
  \/ \E r \in CartReqs : RestoreInc(r)

SpecStore == InitStore /\ [][NextStore]_vars

(* ---------------------------- concurrent adds ------------------------- *)
\* add-item requests whose read of the cart and save are separate steps
NextAdd ==
  \/ \E r \in Reqs, u \in Users, p \in Products, v \in VariantInputs,
        q \in 1..MaxLineQty : AddRead(r, u, p, v, q)
  \/ \E r \in Reqs : AddSave(r)

SpecAdd == InitCart /\ [][NextAdd]_vars

(* ---------------------------- the Product model ------------------------ *)
\* updateInventory applied to product documents of every shape
InitProduct ==
  /\ products \in [Products ->
       { [exists |-> TRUE, status |-> "active", trackInventory |-> t,
          allowBackorder |-> FALSE, price |-> 10, quantity |-> n,
          totalSold |-> 0, totalRevenue |-> 0] :
         t \in BOOLEAN, n \in 0..InitQty }]
  /\ carts = [u \in Users |-> NewCart(<<>>)]
  /\ orders = <<>>
  /\ req = [r \in Reqs |-> Idle]
  /\ events = 0
  /\ now = 0

UpdateInventory(p, quantity, operation) ==
  /\ events < MaxEvents
  /\ events' = events + 1
  /\ products' = [products EXCEPT
                    ![p] = updateInventory(@, quantity, operation)]
  /\ UNCHANGED <<carts, orders, req, now>>

NextProduct ==
  \E p \in Products, q \in 1..(InitQty + 1), operation \in {"subtract", "add"} :
     UpdateInventory(p, q, operation)

SpecProduct == InitProduct /\ [][NextProduct]_vars

(* ---------------------------- the carts collection --------------------- *)
\* no unique index: every insert is accepted
DuplicateUser_NoIndex(cart) == FALSE

\* unique index on user
DuplicateUser(cart) == cart.docs > 0

\* a filter that also takes the carts expiring now
SweepFilter_Lte(cart, t) == cart.expiresAt <= t

\* { expiresAt: { $lt: new Date() } }
SweepFilter(cart, t) == cart.expiresAt < t

\* deleteMany of the carts that match the filter
cleanExpiredCarts(cs, t) ==
  [u \in DOMAIN cs |->
     IF cs[u].docs > 0 /\ SweepFilter(cs[u], t) THEN NoCart ELSE cs[u]]

\* DELETE /api/cart, getOrCreateCart: findOne
ClearFind(r, u) ==
  /\ Begin(r)
  /\ req' = [req EXCEPT ![r] =
       [Idle EXCEPT !.op = "clear", !.user = u,
                    !.pc = IF carts[u].docs > 0 THEN "save" ELSE "create"]]
  /\ UNCHANGED <<products, carts, orders, now>>

\* getOrCreateCart: new Cart({ user }) and its save, under the unique index
ClearCreate(r) ==
  /\ req[r].op = "clear" /\ req[r].pc = "create"
  /\ LET u == req[r].user IN
       IF DuplicateUser(carts[u])
       THEN /\ req' = [req EXCEPT ![r] = Done(@, "ServerError")]
            /\ UNCHANGED carts
       ELSE /\ carts' = [carts EXCEPT ![u] =
                 IF @.docs = 0
                 THEN [NewCart(<<>>) EXCEPT !.expiresAt = now + CartDays]
                 ELSE [@ EXCEPT !.docs = @ + 1]]
            /\ req' = [req EXCEPT ![r].pc = "save"]
  /\ UNCHANGED <<products, orders, events, now>>

\* cart.clear(): its save updates the document by _id and inserts nothing;
\* when the document is gone the answer is the driver's to choose
ClearSave(r) ==
  /\ req[r].op = "clear" /\ req[r].pc = "save"
  /\ LET u == req[r].user IN
       IF carts[u].docs = 0
       THEN /\ \E res \in {"ServerError", "Cleared"} :
                 req' = [req EXCEPT ![r] = Done(@, res)]
            /\ UNCHANGED carts
       ELSE /\ carts' = [carts EXCEPT ![u] = clear(@)]
            /\ req' = [req EXCEPT ![r] = Done(@, "Cleared")]
  /\ UNCHANGED <<products, orders, events, now>>

\* Cart.cleanExpiredCarts()
Sweep ==
  /\ carts' = cleanExpiredCarts(carts, now)
  /\ UNCHANGED <<products, orders, req, events, now>>

\* carts created at most CartDays ago, or not yet created
StoredCarts ==
  {NoCart} \cup { [NewCart(items) EXCEPT !.expiresAt = e] :
                    items \in {<<>>, <<Line("p1", 1)>>}, e \in 0..MaxNow }

InitSweep ==
  /\ products = [p \in Products |->
       [exists |-> TRUE, status |-> "active", trackInventory |-> TRUE,
        allowBackorder |-> FALSE, price |-> PriceOf[p], quantity |-> InitQty,
        totalSold |-> 0, totalRevenue |-> 0]]
  /\ carts \in [Users -> StoredCarts]
  /\ orders = <<>>
  /\ req = [r \in Reqs |-> Idle]
  /\ events = 0
  /\ now = 0

NextSweep ==
  \/ \E r \in Reqs, u \in Users : ClearFind(r, u)
  \/ \E r \in Reqs : ClearCreate(r)
  \/ \E r \in Reqs : ClearSave(r)
  \/ Sweep
  \/ Tick

SpecSweep == InitSweep /\ [][NextSweep]_vars

(* ---------------------------- cart totals ------------------------------ *)
RECURSIVE LineTotals(_, _)
LineTotals(items, n) ==
  IF n = 0 THEN 0
  ELSE items[n].price * items[n].quantity + LineTotals(items, n - 1)

\* the discount a cart's coupon stands for: none without a coupon, the
\* percentage of the subtotal, or the fixed value
CouponDiscount(cart) ==
  IF cart.coupon.code = <<>> THEN 0
  ELSE IF cart.coupon.type = "percentage"
       THEN (LineTotals(cart.items, Len(cart.items)) * cart.coupon.discount)
            \div 100
  ELSE cart.coupon.discount

\* C11: in every reachable state of every cart, subtotal is the sum of
\* price x quantity over its lines and total is subtotal + shippingCost +
\* tax.amount - discountAmount, where discountAmount is the percentage of
\* the subtotal, the fixed value, or 0 when no coupon is applied.
C11_CartTotals ==
  \A u \in Users :
    /\ subtotal(carts[u]) = LineTotals(carts[u].items, Len(carts[u].items))
    /\ total(carts[u]) = subtotal(carts[u]) + carts[u].shippingCost
                         + carts[u].taxAmount - CouponDiscount(carts[u])

\* a percentage coupon has been applied to a cart of two lines
C11_Witness ==
  \E u \in Users :
    /\ req["r1"].op = "applyCoupon" /\ req["r1"].user = u
    /\ req["r1"].result = "Applied"
    /\ Len(carts[u].items) = 2
    /\ carts[u].coupon.type = "percentage"
    /\ total(carts[u]) < subtotal(carts[u])

(* ---------------------------- cart lines ------------------------------- *)
\* C12: no cart holds two lines with the same (product, variant) pair:
\* adding a (product, variant) the cart already holds, the case of no
\* variant included, increases that line's quantity and adds no line.
C12_OneLinePerVariant ==
  \A u \in Users :
    \A i, j \in 1..Len(carts[u].items) :
      (/\ carts[u].items[i].product = carts[u].items[j].product
       /\ carts[u].items[i].variant = carts[u].items[j].variant) => i = j

WithoutLine(items, k) ==
  SubSeq(items, 1, k - 1) \o SubSeq(items, k + 1, Len(items))

\* C13: setting the quantity of an existing line to 0 removes exactly that
\* line and leaves every other line as it was (a cart of that one line ends
\* with no items and itemCount 0); a negative quantity is rejected and the
\* cart stays as it was.
C13_ZeroRemovesThatLine ==
  [][\A u \in Users, id \in 1..MaxEvents, q \in -1..0 :
       UpdateItem("r1", u, id, q) =>
         LET k == LineById(carts[u].items, id) IN
         /\ (q = 0 /\ k > 0) =>
              /\ carts'[u].items = WithoutLine(carts[u].items, k)
              /\ Len(carts[u].items) = 1 => itemCount(carts'[u]) = 0
         /\ q < 0 =>
              /\ req'["r1"].result = "ValidationFailed"
              /\ carts' = carts]_vars

(* ---------------------------- coupon expiry ---------------------------- *)
Expired(cart) == cart.coupon.code # <<>> /\ now >= cart.coupon.expiresAt

\* C14: a coupon past its expiry is not valid: applyCoupon never installs a
\* coupon with now >= expiresAt, and a coupon whose expiresAt has passed
\* gives no discount to the cart total nor to the discount and total of
\* the order a checkout of that cart would create.
C14_ExpiredCouponVoid ==
  [][/\ \A u \in Users, c \in CodeInputs :
          (ApplyCoupon("r1", u, c) /\ req'["r1"].result = "Applied")
            => now' < carts'[u].coupon.expiresAt
     /\ \A u \in Users :
          Expired(carts[u]) =>
            /\ total(carts[u]) = subtotal(carts[u]) + carts[u].shippingCost
                                 + carts[u].taxAmount
            /\ OrderData(u, carts[u]).discount = 0
            /\ OrderData(u, carts[u]).total = OrderData(u, carts[u]).subtotal
                 + OrderData(u, carts[u]).tax
                 + OrderData(u, carts[u]).shippingCost]_vars

(* ---------------------------- negative totals -------------------------- *)
\* C15: checkout never creates an order with a negative total: when the
\* discount exceeds subtotal + shipping + tax the checkout is rejected (or
\* the total is clamped at 0), and the rejection leaves no order and no
\* inventory or sales counter changed.
C15_NoNegativeTotalOrder ==
  /\ [](\A o \in 1..Len(orders) : orders[o].total >= 0)
  /\ [][\A r \in Reqs :
          (CheckoutInsert(r) /\ req[r].doc.total < 0) =>
            /\ req'[r].pc = "done" /\ req'[r].result = "ServerError"
            /\ UNCHANGED <<orders, products, carts>>]_vars

\* a checkout of a cart whose fixed coupon exceeds its subtotal was rejected
C15_Witness ==
  \E r \in Reqs :
    /\ req[r].op = "checkout" /\ req[r].result = "ServerError"
    /\ Len(carts[req[r].user].items) > 0
    /\ total(carts[req[r].user]) < 0
    /\ orders = <<>>
    /\ \A p \in Products : products[p].totalSold = 0

(* ---------------------------- applying a coupon ------------------------ *)
\* C16 as stated: applyCoupon on a cart with no items is rejected with
\* EmptyCart, whatever the code, and leaves the cart as it was.
C16_EmptyCartFirst ==
  [][\A u \in Users, c \in CodeInputs :
       (ApplyCoupon("r1", u, c) /\ Len(carts[u].items) = 0) =>
         (req'["r1"].result = "CartEmpty" /\ carts' = carts)]_vars

\* C16: a code that is not in the coupon table after trimming and
\* upper-casing is rejected with InvalidCoupon (a blank code by the
\* validator) whether or not the cart holds items; a code of the table on a
\* cart with no items is rejected with EmptyCart; both leave coupon and
\* items as they were. A code of the table on a cart with items installs
\* that coupon in place of the previous one.
C16_ApplyCoupon ==
  [][\A u \in Users, c \in CodeInputs :
       ApplyCoupon("r1", u, c) =>
         LET code == toUpperCase(trim(c)) IN
         /\ code \notin DOMAIN validCoupons =>
              /\ req'["r1"].result =
                   IF code = <<>> THEN "ValidationFailed" ELSE "InvalidCoupon"
              /\ carts' = carts
         /\ (code \in DOMAIN validCoupons /\ Len(carts[u].items) = 0) =>
              /\ req'["r1"].result = "CartEmpty"
              /\ carts' = carts
         /\ (code \in DOMAIN validCoupons /\ Len(carts[u].items) > 0) =>
              /\ req'["r1"].result = "Applied"
              /\ carts'[u].coupon.code = code
              /\ carts'[u].coupon.discount = validCoupons[code].discount
              /\ carts'[u].coupon.type = validCoupons[code].type
              /\ carts'[u].items = carts[u].items
              /\ \A w \in Users \ {u} : carts'[w] = carts[w]]_vars

\* an unknown code on a cart with no items was answered InvalidCoupon
C16_Witness ==
  /\ req["r1"].op = "applyCoupon" /\ req["r1"].result = "InvalidCoupon"
  /\ req["r1"].arg = <<<<"X">>>>
  /\ carts[req["r1"].user].items = <<>>
  /\ carts[req["r1"].user].coupon = NoCoupon

(* ---------------------------- discount amounts ------------------------- *)
\* the discountAmount inside the cart's total
DiscountInTotal(cart) ==
  subtotal(cart) + cart.shippingCost + cart.taxAmount - total(cart)

\* a cart of one line of 5 x 20 with the given coupon
CartOfHundred(code) ==
  applyCoupon(NewCart(<<[Line("p2", 5) EXCEPT !.price = 20]>>), code,
              validCoupons[code].discount, validCoupons[code].type, 1)

\* C17: for a fixed coupon discountAmount is the coupon's value whatever the
\* subtotal (SAVE20 gives 20), for a percentage coupon it is subtotal x
\* value / 100 (WELCOME10 on 100 gives 10), and the discount amount an
\* order records is the cart's discountAmount at the instant the checkout
\* read the cart.
C17_DiscountAmounts ==
  /\ [](/\ \A u \in Users :
             /\ carts[u].coupon.code = SAVE20 =>
                  DiscountInTotal(carts[u]) = 20
             /\ (carts[u].coupon.code # <<>>
                 /\ carts[u].coupon.type = "fixed") =>
                  DiscountInTotal(carts[u]) = carts[u].coupon.discount
             /\ carts[u].coupon.code = WELCOME10 =>
                  DiscountInTotal(carts[u]) * 100 = subtotal(carts[u]) * 10
        /\ DiscountInTotal(CartOfHundred(WELCOME10)) = 10
        /\ DiscountInTotal(CartOfHundred(SAVE20)) = 20)
  /\ [][\A r \in Reqs :
          /\ \A u \in Users :
               (CheckoutStart(r, u) /\ req'[r].pc = "count") =>
                 req'[r].doc.discount = DiscountInTotal(carts[u])
          /\ (CheckoutInsert(r) /\ Len(orders') > Len(orders)) =>
               orders'[Len(orders')].discount = req[r].doc.discount]_vars

\* an order was created from a cart under the percentage coupon
C17_Witness ==
  \E o \in 1..Len(orders) :
    /\ orders[o].discount > 0
    /\ orders[o].discount * 100 = orders[o].subtotal * 10
    /\ orders[o].total = orders[o].subtotal - orders[o].discount

(* ---------------------------- orders are snapshots --------------------- *)
\* what an order records of the purchase
Snapshot(order) ==
  [orderNumber |-> order.orderNumber, customer |-> order.customer,
   items |-> order.items, subtotal |-> order.subtotal, tax |-> order.tax,
   shippingCost |-> order.shippingCost, discount |-> order.discount,
   total |-> order.total]

\* C18: once an order exists no operation (status update, cancel, a later
\* change of a product's price, a cart mutation, another checkout) changes
\* its items, quantities, unit prices, subtotal, tax, shipping cost,
\* discount or total, and none deletes it; only status and timeline change.
C18_OrderSnapshot ==
  [][/\ Len(orders') >= Len(orders)
     /\ \A o \in 1..Len(orders) :
          Snapshot(orders'[o]) = Snapshot(orders[o])]_vars

\* an order's status was updated after the price of one of its products
\* had changed
C18_Witness ==
  \E o \in 1..Len(orders) :
    /\ Len(orders[o].timeline) > 1
    /\ \E k \in 1..Len(orders[o].items) :
         orders[o].items[k].price # products[orders[o].items[k].product].price

(* ---------------------------- concurrent adds ------------------------- *)
RECURSIVE QuantityOf(_, _, _)
QuantityOf(items, p, variant) ==
  IF items = <<>> THEN 0
  ELSE (IF Head(items).product = p /\ Head(items).variant = variant
        THEN Head(items).quantity ELSE 0)
       + QuantityOf(Tail(items), p, variant)

Cleared(u) ==
  /\ DOMAIN carts' = Users
  /\ carts'[u].items = <<>>
  /\ carts'[u].coupon.code = <<>>
  /\ total(carts'[u]) = carts[u].shippingCost + carts[u].taxAmount
  /\ carts'[u].shippingMethod = carts[u].shippingMethod
  /\ carts'[u].shippingCost = carts[u].shippingCost
  /\ carts'[u].taxAmount = carts[u].taxAmount
  /\ \A w \in Users \ {u} : carts'[w] = carts[w]

\* C20: clear(), called by DELETE /api/cart or at the end of a successful
\* checkout, leaves the cart in existence with no items and no coupon and
\* with its shippingMethod, shippingCost and tax as they were.
C20_ClearFrame ==
  [][/\ \A u \in Users : ClearCart("r1", u) => Cleared(u)
     /\ \A r \in Reqs : CheckoutClear(r) => Cleared(req[r].user)]_vars

\* a checkout of a cart that held lines and a coupon has cleared the cart
C20_Witness ==
  \E r \in Reqs :
    /\ req[r].op = "checkout" /\ req[r].result = "Created"
    /\ orders[req[r].oid].discount > 0
    /\ carts[req[r].user].items = <<>>
    /\ carts[req[r].user].coupon = NoCoupon

(* ---------------------------- removing a line -------------------------- *)
\* C21: removing a cart item is idempotent: a remove request for an item
\* that is not (or no longer) in the cart succeeds without an error and
\* leaves the cart as it was.
C21_RemoveAbsentSucceeds ==
  [][\A u \in Users, id \in 1..MaxEvents :
       (RemoveItem("r1", u, id) /\ LineById(carts[u].items, id) = 0) =>
         (req'["r1"].result = "Removed" /\ carts' = carts)]_vars

(* ---------------------------- cancel by another user ------------------- *)
\* C22: a customer cancel by a user who is not the order's customer is
\* rejected with NotAuthorized, whatever the order's status, and leaves the
\* order's status and timeline and all product inventory as they were;
\* only the owning customer's cancel takes effect.
C22_ForeignCancelRejected ==
  [][\A r \in Reqs :
       /\ \A u \in Users, o \in 1..Len(orders) :
            (CancelStart(r, u, o) /\ orders[o].customer # u) =>
              /\ req'[r].pc = "done" /\ req'[r].result = "NotAuthorized"
              /\ UNCHANGED <<orders, products, carts>>
       /\ (CancelSave(r) \/ (RestoreInc(r) /\ req[r].op = "cancel")) =>
            orders[req[r].oid].customer = req[r].user]_vars

\* a user who does not own it asked to cancel an order that was shipped
C22_Witness ==
  \E r \in Reqs :
    /\ req[r].op = "cancel" /\ req[r].result = "NotAuthorized"
    /\ Len(orders) = 1
    /\ orders[1].customer # req[r].user
    /\ orders[1].status = "shipped"
    /\ Len(orders[1].timeline) > 0

(* ---------------------------- reserve and release ---------------------- *)
\* C23: on the Product model release is the inverse of reserve: for a
\* tracked product and qty <= inventory.quantity, updateInventory(qty,
\* 'subtract') then updateInventory(qty, 'add') restores inventory.quantity,
\* sales.totalSold and sales.totalRevenue; a reserve of qty > quantity
\* leaves quantity at 0.
C23_ReleaseInvertsReserve ==
  \A p \in Products, q \in 1..(InitQty + 1) :
    LET prod == products[p]
        reserved == updateInventory(prod, q, "subtract")
        released == updateInventory(reserved, q, "add")
    IN prod.trackInventory =>
         /\ q <= prod.quantity =>
              /\ released.quantity = prod.quantity
              /\ released.totalSold = prod.totalSold
              /\ released.totalRevenue = prod.totalRevenue
         /\ q > prod.quantity => reserved.quantity = 0

(* ---------------------------- one cart per user ------------------------ *)
\* C24: each user has at most one cart in every reachable state; two
\* concurrent first accesses that both find no cart do not leave two carts
\* for the user.
C24_OneCartPerUser == \A u \in Users : carts[u].docs <= 1

\* two requests of one user both found no cart; one created it, the other's
\* insert was refused
C24_Witness ==
  \E r, t \in Reqs :
    /\ r # t /\ req[r].user = req[t].user
    /\ req[r].op = "clear" /\ req[r].result = "ServerError"
    /\ req[t].op = "clear" /\ req[t].result = "Cleared"
    /\ carts[req[r].user].docs = 1
    /\ carts[req[r].user].expiresAt = now + CartDays
    /\ now = 0

(* ---------------------------- the expiry sweep ------------------------- *)
\* C25: the sweep deletes exactly the carts whose expiresAt is earlier than
\* the current time and leaves every other cart and all orders and products
\* as they were; a second sweep right after changes nothing; in any
\* interleaving with cart requests it removes no cart whose expiresAt has
\* not passed.
C25_SweepExact ==
  [][Sweep =>
       /\ \A u \in Users :
            carts'[u] = IF carts[u].docs > 0 /\ carts[u].expiresAt < now
                        THEN NoCart ELSE carts[u]
       /\ cleanExpiredCarts(carts', now') = carts'
       /\ UNCHANGED <<orders, products>>]_vars

\* a sweep has removed one user's expired cart and kept the other user's
\* cart, which expires now, while a request on the removed cart is in flight
C25_Witness ==
  \E u, w \in Users, r \in Reqs :
    /\ carts[u].docs = 0 /\ carts[w].docs = 1
    /\ carts[w].expiresAt = now
    /\ req[r].user = u /\ req[r].pc = "save"

(* ---------------------------- stock conservation ----------------------- *)
RECURSIVE QuantityIn(_, _)
QuantityIn(items, p) ==
  IF items = <<>> THEN 0
  ELSE (IF Head(items).product = p THEN Head(items).quantity ELSE 0)
       + QuantityIn(Tail(items), p)

RECURSIVE OrderedQuantity(_, _)
OrderedQuantity(os, p) ==
  IF os = <<>> THEN 0
  ELSE (IF Head(os).status # "cancelled" THEN QuantityIn(Head(os).items, p)
        ELSE 0)
       + OrderedQuantity(Tail(os), p)

\* C26: with product quantities changed by checkout, privileged status
\* update and customer cancel only, whenever no request is in flight each
\* tracked product's inventory.quantity plus the quantities of that product
\* over all orders that are not cancelled is the product's initial quantity.
C26_StockConserved ==
  (\A r \in Reqs : req[r].pc \in {"idle", "done"}) =>
    \A p \in Products :
      products[p].trackInventory =>
        products[p].quantity + OrderedQuantity(orders, p) = InitQty

(* ---------------------------- one order per cart ----------------------- *)
OrdersOf(u) == {o \in 1..Len(orders) : orders[o].customer = u}

C28_UntrackedQuantityKept ==
  \A p \in Products :
    ~products[p].trackInventory => products[p].quantity = InitQty

(* ---------------------------- status and timeline ---------------------- *)
\* C29: in every reachable state of every order the order's status is the
\* status of the last entry of its timeline, from creation on.
C29_StatusIsLastEntry ==
  \A o \in 1..Len(orders) :
    /\ Len(orders[o].timeline) > 0
    /\ orders[o].timeline[Len(orders[o].timeline)].status = orders[o].status

(* ---------------------------- privileged status update ----------------- *)
\* C30: the privileged status update accepts each of the seven statuses
\* from any current status, sets the order's status to the requested value,
\* and for an order id that does not exist answers NotFound and changes no
\* order and no product.
C30_StatusUpdate ==
  [][\A r \in Reqs :
       /\ \A o \in 0..MaxOrders, s \in Statuses :
            (req'[r].op = "status" /\ StatusStart(r, o, s)) =>
              IF o \in 1..Len(orders)
              THEN req'[r].pc = "save" /\ req'[r].newStatus = s
              ELSE /\ req'[r].pc = "done"
                   /\ req'[r].result = "OrderNotFound"
                   /\ UNCHANGED <<orders, products>>
       /\ StatusSave(r) =>
            orders'[req[r].oid].status = req[r].newStatus]_vars

====
